---- MODULE Spec2Model ----
(***************************************************************************)
(* The four report-inspection scripts of the repository                   *)
(*   check_full.py, failed_details.py, temp_decode.py,                    *)
(*   vitest-report-summary.py                                             *)
(* as one state machine: a run picks a script and an input file, loads    *)
(* and parses it, and then prints its lines one statement at a time.      *)
(*                                                                         *)
(* Strings are sequences of tokens (a token is a run of characters that   *)
(* the scripts never look into; "\n" is the line feed).  A JSON object is *)
(* a function from its keys, so that an absent key is a key outside its   *)
(* DOMAIN.  [null |-> TRUE] is JSON null and [list |-> l] a JSON array in *)
(* the one place (failureMessages) where the scripts tell them apart.     *)
(***************************************************************************)
EXTENDS Integers, Sequences, FiniteSets, TLC

VARIABLES script, fileExists, fileBytes, report, pc, data, i, failures, out, err

vars == <<script, fileExists, fileBytes, report, pc, data, i, failures, out, err>>

\* ------------------------------------------------------------- bounds
MaxSuites == 2
MaxAsserts == 3
MaxMsgs == 2
MaxFileItems == 4
MaxCount == 11

\* ------------------------------------------------------------ strings
NL == "\n"
EmptyStr == <<>>
E2E == "e2e-quality-orchestration.test.ts"

Digit(n) ==
  CASE n = 0 -> "0" [] n = 1 -> "1" [] n = 2 -> "2" [] n = 3 -> "3"
    [] n = 4 -> "4" [] n = 5 -> "5" [] n = 6 -> "6" [] n = 7 -> "7"
    [] n = 8 -> "8" [] n = 9 -> "9"

\* str(n) / "{}".format(n) of a non-negative integer: its decimal digits.
RECURSIVE Str(_)
Str(n) == IF n < 10 THEN <<Digit(n)>> ELSE Str(n \div 10) \o <<Digit(n % 10)>>

\* needle in hay
Contains(hay, needle) ==
  \E k \in 0..(Len(hay) - Len(needle)) : SubSeq(hay, k + 1, k + Len(needle)) = needle

IndexOfNL(s) ==
  IF \E k \in 1..Len(s) : s[k] = NL
  THEN CHOOSE k \in 1..Len(s) : s[k] = NL /\ \A m \in 1..(k - 1) : s[m] # NL
  ELSE 0

\* s.split('\n', maxsplit); maxsplit = -1 is no limit.
RECURSIVE Split(_, _)
Split(s, maxsplit) ==
  LET k == IndexOfNL(s)
  IN IF k = 0 \/ maxsplit = 0
     THEN <<s>>
     ELSE <<SubSeq(s, 1, k - 1)>> \o Split(SubSeq(s, k + 1, Len(s)), maxsplit - 1)

\* '\n'.join(list)
RECURSIVE Join(_)
Join(list) ==
  IF list = <<>> THEN EmptyStr
  ELSE IF Len(list) = 1 THEN list[1]
  ELSE list[1] \o <<NL>> \o Join(Tail(list))

\* ------------------------------------------------------- JSON objects
Null == [null |-> TRUE]
List(l) == [list |-> l]
IsNull(v) == "null" \in DOMAIN v

\* d.get(k, default)
Get(d, k, default) == IF k \in DOMAIN d THEN d[k] ELSE default

\* d.get(k) == v, for a string v (None equals no string)
GetEq(d, k, v) == k \in DOMAIN d /\ d[k] = v

Without(d, k) == [x \in DOMAIN d \ {k} |-> d[x]]

SeqsUpTo(S, n) == UNION {[1..m -> S] : m \in 0..n}

\* ------------------------------------------------------------ decoding
Scripts == {"check_full", "failed_details", "temp_decode", "vitest_report_summary"}

\* The encoding= argument of each script's read_text.
Encoding(s) ==
  CASE s = "check_full" -> "utf-8"
    [] s = "failed_details" -> "utf-8"
    [] s = "temp_decode" -> "utf-16-le"
    [] s = "vitest_report_summary" -> "utf-8-sig"

\* The errors= argument of each script's read_text ('strict' is the default).
ErrorsIgnore(s) ==
  CASE s = "check_full" -> "ignore"
    [] s = "failed_details" -> "ignore"
    [] s = "temp_decode" -> "ignore"
    [] s = "vitest_report_summary" -> "strict"

\* A file is a sequence of items.  "JSON8" is the report's JSON text in ASCII
\* bytes (an even number of them), "JSON16" the same text in UTF-16-LE (each
\* character followed by a zero byte); the others are single bytes: 0A is the
\* line feed, EF BB BF the UTF-8 byte-order mark, FF FE the UTF-16-LE one; FF
\* and FE occur in no UTF-8 text.
FileItems == {"JSON8", "JSON16", "x0A", "xEF", "xBB", "xBF", "xFF", "xFE"}
BOM_UTF8 == <<"xEF", "xBB", "xBF">>
IsCont(b) == b \in {"xBB", "xBF"}

Decoded(t) == [err |-> "none", text |-> t]
DecodeFailed == [err |-> "UnicodeDecodeError", text |-> <<>>]

\* The code point of the three-byte sequence EF b2 b3.
CodePoint3(b2, b3) == IF b2 = "xBB" /\ b3 = "xBF" THEN "U+FEFF" ELSE "U+F???"

\* bytes.decode('utf-8', errors) from item k on.
RECURSIVE Utf8From(_, _, _)
Utf8From(bs, k, errors) ==
  IF k > Len(bs) THEN Decoded(<<>>)
  ELSE LET b == bs[k]
           bad(n) == IF errors = "ignore" THEN Utf8From(bs, k + n, errors)
                     ELSE DecodeFailed
           emit(c, n) == LET r == Utf8From(bs, k + n, errors)
                         IN [err |-> r.err, text |-> <<c>> \o r.text]
       IN CASE b = "JSON8" -> emit("JSON", 1)
            [] b = "JSON16" -> emit("JSON+NUL", 1)
            [] b = "x0A" -> emit(NL, 1)
            [] b = "xEF" ->
                 IF k + 1 <= Len(bs) /\ IsCont(bs[k + 1])
                 THEN IF k + 2 <= Len(bs) /\ IsCont(bs[k + 2])
                      THEN emit(CodePoint3(bs[k + 1], bs[k + 2]), 3)
                      ELSE bad(2)
                 ELSE bad(1)
            [] OTHER -> bad(1)

\* bytes.decode('utf-8-sig', errors): a leading byte-order mark is skipped.
Utf8SigDecode(bs, errors) ==
  IF Len(bs) >= 3 /\ SubSeq(bs, 1, 3) = BOM_UTF8
  THEN Utf8From(bs, 4, errors)
  ELSE Utf8From(bs, 1, errors)

\* The UTF-16 code unit of the byte pair (lo, hi).  No byte of FileItems is a
\* surrogate's high byte (D8..DF), so every pair is a character.
CodeUnit(lo, hi) == IF lo = "xFF" /\ hi = "xFE" THEN "U+FEFF" ELSE "U+????"

\* bytes.decode('utf-16-le', errors) from item k on; pending is the first
\* byte of a pair whose second byte is still to come ("" when aligned).
RECURSIVE Utf16From(_, _, _, _)
Utf16From(bs, k, pending, errors) ==
  IF k > Len(bs)
  THEN IF pending = "" \/ errors = "ignore" THEN Decoded(<<>>) ELSE DecodeFailed
  ELSE LET b == bs[k]
           emit(c, p) == LET r == Utf16From(bs, k + 1, p, errors)
                         IN [err |-> r.err, text |-> <<c>> \o r.text]
       IN CASE b = "JSON16" ->
                 IF pending = "" THEN emit("JSON", "") ELSE emit("U+????", "x00")
            [] b = "JSON8" ->
                 IF pending = "" THEN emit("U+????", "") ELSE emit("U+????", "x7D")
            [] OTHER ->
                 IF pending = "" THEN Utf16From(bs, k + 1, b, errors)
                 ELSE emit(CodeUnit(pending, b), "")

\* bytes.decode(encoding, errors)
Decode(encoding, errors, bs) ==
  CASE encoding = "utf-8" -> Utf8From(bs, 1, errors)
    [] encoding = "utf-8-sig" -> Utf8SigDecode(bs, errors)
    [] encoding = "utf-16-le" -> Utf16From(bs, 1, "", errors)

\* Path(...).read_text(encoding=..., errors=...)
ReadText(s) ==
  IF ~fileExists THEN [err |-> "FileNotFoundError", text |-> <<>>]
  ELSE Decode(Encoding(s), ErrorsIgnore(s), fileBytes)

RECURSIVE StripWs(_)
StripWs(t) ==
  IF t # <<>> /\ t[1] = NL THEN StripWs(Tail(t))
  ELSE IF t # <<>> /\ t[Len(t)] = NL THEN StripWs(SubSeq(t, 1, Len(t) - 1))
  ELSE t

\* json.loads(text): the document when the text is the JSON text with
\* white space around it, JSONDecodeError for any other text.
JsonLoads(text) ==
  IF StripWs(text) = <<"JSON">> THEN [err |-> "none", doc |-> report]
  ELSE [err |-> "JSONDecodeError", doc |-> Null]

\* ------------------------------------------------------------- reports
CounterKeys ==
  {"numTotalTests", "numPassedTests", "numFailedTests", "numTotalTestSuites",
   "numPassedTestSuites", "numFailedTestSuites", "numPendingTestSuites",
   "numPendingTests"}

MkReport(total, failed, suites) ==
  [numTotalTests |-> total, numPassedTests |-> 7, numFailedTests |-> failed,
   numTotalTestSuites |-> 4, numPassedTestSuites |-> 3, numFailedTestSuites |-> 1,
   numPendingTestSuites |-> 0, numPendingTests |-> 5, testResults |-> suites]

MkSuite(name, status, asserts) ==
  [name |-> name, status |-> status, assertionResults |-> asserts]

MkAssert(fullName, status, msgs) ==
  [fullName |-> fullName, status |-> status, failureMessages |-> msgs]

PosName(k) == <<"src/s", Digit(k), ".test.ts">>
PosFull(k, m) == <<"case ", Digit(k), ".", Digit(m)>>
Msg1 == <<"AssertionError: expected 1 to be 2">>
Msg2 == <<"Error: boom", NL, "    at run (x.ts:1:1)">>
DefaultMsgs(status) == IF status = "failed" THEN List(<<Msg2>>) ELSE List(<<>>)

\* Reports in which the statuses of the suites and of their assertions vary
\* freely, with at most MaxAsserts assertions in all; the counters are fixed
\* and so differ from what the suites hold.
RECURSIVE TotalAsserts(_)
TotalAsserts(sh) ==
  IF sh = <<>> THEN 0 ELSE Len(Head(sh).asserts) + TotalAsserts(Tail(sh))

StatusShapes ==
  {sh \in SeqsUpTo([status : {"passed", "failed"},
                    asserts : SeqsUpTo({"passed", "failed"}, MaxAsserts)], MaxSuites) :
     TotalAsserts(sh) <= MaxAsserts}

StatusReport(sh) ==
  MkReport(9, 2,
    [k \in 1..Len(sh) |->
       MkSuite(PosName(k), sh[k].status,
         [m \in 1..Len(sh[k].asserts) |->
            MkAssert(PosFull(k, m), sh[k].asserts[m], DefaultMsgs(sh[k].asserts[m]))])])

StatusReports == {StatusReport(sh) : sh \in StatusShapes}

\* Reports in which the suite names vary: with and without the looked-up
\* file name, which may be followed by more text.
SuiteNames == {<<"src/plain.test.ts">>, <<"a/b/", E2E>>, <<"c/", E2E, ".snap">>}

NameShapes ==
  SeqsUpTo([name : SuiteNames, status : {"passed", "failed", "pending"}], MaxSuites)

NameReport(sh) ==
  MkReport(9, 2,
    [k \in 1..Len(sh) |->
       MkSuite(sh[k].name, sh[k].status,
               <<MkAssert(PosFull(k, 1), "passed", List(<<>>))>>)])

NameReports == {NameReport(sh) : sh \in NameShapes}

\* Reports in which the failure messages of a failed assertion vary: absent,
\* null, or an array of strings, each empty, of one line or of several.
Messages == {EmptyStr, Msg1, Msg2, <<NL, "tail">>}
MsgFields == {Null} \cup {List(l) : l \in SeqsUpTo(Messages, MaxMsgs)}

MsgReports ==
  {MkReport(9, 2,
     <<MkSuite(PosName(1), "failed",
         <<MkAssert(PosFull(1, 1), "failed", f),
           MkAssert(PosFull(1, 2), "failed", List(<<Msg1>>))>>)>>) : f \in MsgFields}
  \cup
  {MkReport(9, 2,
     <<MkSuite(PosName(1), "failed",
         <<Without(MkAssert(PosFull(1, 1), "failed", Null), "failureMessages"),
           MkAssert(PosFull(1, 2), "failed", List(<<Msg1>>))>>)>>)}

\* Reports in which the counters vary.
CounterReports ==
  {MkReport(t, f,
     <<MkSuite(PosName(1), "failed",
         <<MkAssert(PosFull(1, 1), "failed", List(<<Msg1>>))>>)>>)
     : t \in 0..MaxCount, f \in 0..MaxCount}

\* Reports with one field left out: a counter, testResults, a field of a
\* suite or a field of an assertion.
SchemaBases ==
  {MkReport(9, 2,
     <<MkSuite(PosName(1), s1, <<MkAssert(PosFull(1, 1), a1, DefaultMsgs(a1))>>),
       MkSuite(<<"a/b/", E2E>>, "passed",
               <<MkAssert(PosFull(2, 1), a2, DefaultMsgs(a2))>>)>>)
     : s1 \in {"passed", "failed"},
       a1 \in {"passed", "failed", "pending"},
       a2 \in {"passed", "failed"}}

DropTop(r, key) == Without(r, key)

DropSuite(r, k, key) ==
  [r EXCEPT !.testResults = [@ EXCEPT ![k] = Without(@, key)]]

DropAssert(r, k, key) ==
  [r EXCEPT !.testResults =
     [@ EXCEPT ![k] =
        [name |-> @.name, status |-> @.status,
         assertionResults |-> <<Without(@.assertionResults[1], key)>>]]]

SchemaReports ==
  {DropTop(r, key) : r \in SchemaBases, key \in CounterKeys \cup {"testResults"}}
  \cup {DropSuite(r, k, key) : r \in SchemaBases, k \in 1..2,
                               key \in {"name", "status", "assertionResults"}}
  \cup {DropAssert(r, k, key) : r \in SchemaBases, k \in 1..2,
                                key \in {"fullName", "status", "failureMessages"}}

Reports ==
  StatusReports \cup NameReports \cup MsgReports \cup CounterReports \cup SchemaReports

\* The report of the runs in which the file's bytes vary.
SampleReport ==
  MkReport(9, 2,
    <<MkSuite(PosName(1), "failed",
        <<MkAssert(PosFull(1, 1), "failed", List(<<Msg1>>))>>)>>)

Files == SeqsUpTo(FileItems, MaxFileItems)

\* The file as its producer writes it for the script's encoding.
WrittenFor(s) == IF Encoding(s) = "utf-16-le" THEN <<"JSON16">> ELSE <<"JSON8">>

\* --------------------------------------------------------------- runs
NoData == [nodata |-> TRUE]

Init ==
  /\ script \in Scripts
  /\ \/ /\ report \in Reports
        /\ fileExists = TRUE
        /\ fileBytes = WrittenFor(script)
     \/ /\ report = SampleReport
        /\ fileExists = TRUE
        /\ fileBytes \in Files
     \/ /\ report = SampleReport
        /\ fileExists = FALSE
        /\ fileBytes = <<>>
  /\ pc = "load"
  /\ data = NoData
  /\ i = 1
  /\ failures = <<>>
  /\ out = <<>>
  /\ err = "none"

\* An uncaught exception: the traceback goes to standard error and the
\* interpreter exits with a non-zero status.
Raise(e) == pc' = "error" /\ err' = e

FirstPc(s) ==
  CASE s = "check_full" -> "cf_totals"
    [] s = "failed_details" -> "fd_for"
    [] s = "temp_decode" -> "td_print"
    [] s = "vitest_report_summary" -> "vs_suite_totals"

\* json.loads(Path(...).read_text(...)), the load statement of each script.
Load ==
  /\ pc = "load"
  /\ LET t == ReadText(script)
         p == JsonLoads(t.text)
     IN IF t.err # "none" THEN Raise(t.err) /\ data' = data
        ELSE IF p.err # "none" THEN Raise(p.err) /\ data' = data
        ELSE data' = p.doc /\ pc' = FirstPc(script) /\ err' = err
  /\ UNCHANGED <<script, fileExists, fileBytes, report, i, failures, out>>

\* [a for a in assertions if a.get('status')=='failed']
IsFailedGet(a) == GetEq(a, "status", "failed")
\* A variant that looks only into the suites whose own status is failed.
FailsOf_OfFailedSuites(suite) ==
  IF GetEq(suite, "status", "failed")
  THEN SelectSeq(Get(suite, "assertionResults", <<>>), IsFailedGet)
  ELSE <<>>

FailsOf(suite) == SelectSeq(Get(suite, "assertionResults", <<>>), IsFailedGet)

\* ------------------------------------------------------- check_full.py
\* A variant that prints the passed counter after failed=.
CF_TotalsLine_Swapped(j) ==
  <<"total=">> \o Str(j["numTotalTests"])
  \o <<" ", "passed=">> \o Str(j["numFailedTests"])
  \o <<" ", "failed=">> \o Str(j["numPassedTests"])
  \o <<" ", "failedSuites=">> \o Str(j["numFailedTestSuites"])

\* f"total={..} passed={..} failed={..} failedSuites={..}"
CF_TotalsLine(j) ==
  <<"total=">> \o Str(j["numTotalTests"])
  \o <<" ", "passed=">> \o Str(j["numPassedTests"])
  \o <<" ", "failed=">> \o Str(j["numFailedTests"])
  \o <<" ", "failedSuites=">> \o Str(j["numFailedTestSuites"])

\* A variant that counts all the assertions of the suite.
CF_SuiteLine_AllAsserts(s) ==
  s["name"] \o <<" :: ">> \o Str(Len(Get(s, "assertionResults", <<>>)))

\* f"{s['name']} :: {len(fails)}"
CF_SuiteLine(s) == s["name"] \o <<" :: ">> \o Str(Len(FailsOf(s)))

CF_PrintTotals ==
  /\ script = "check_full" /\ pc = "cf_totals"
  /\ IF {"numTotalTests", "numPassedTests", "numFailedTests", "numFailedTestSuites"}
          \subseteq DOMAIN data
     THEN out' = Append(out, CF_TotalsLine(data)) /\ pc' = "cf_for" /\ err' = err
     ELSE Raise("KeyError") /\ out' = out
  /\ UNCHANGED <<script, fileExists, fileBytes, report, data, i, failures>>

\* One turn of "for s in j['testResults']".
CF_ForSuite ==
  /\ script = "check_full" /\ pc = "cf_for"
  /\ IF "testResults" \notin DOMAIN data
     THEN Raise("KeyError") /\ UNCHANGED <<i, out>>
     ELSE IF i > Len(data["testResults"])
     THEN pc' = "done" /\ UNCHANGED <<i, out, err>>
     ELSE LET s == data["testResults"][i]
          IN IF ~GetEq(s, "status", "failed")
             THEN i' = i + 1 /\ UNCHANGED <<pc, out, err>>
             ELSE IF "name" \notin DOMAIN s
             THEN Raise("KeyError") /\ UNCHANGED <<i, out>>
             ELSE /\ out' = Append(out, CF_SuiteLine(s))
                  /\ i' = i + 1
                  /\ UNCHANGED <<pc, err>>
  /\ UNCHANGED <<script, fileExists, fileBytes, report, data, failures>>

\* --------------------------------------------------- failed_details.py
\* (a.get('failureMessages') or [''])
OrEmptyMsg(v) == IF IsNull(v) \/ v.list = <<>> THEN <<EmptyStr>> ELSE v.list

\* msg=(a.get('failureMessages') or [''])[0].split('\n')[0]
FD_Msg(a) == Split(OrEmptyMsg(Get(a, "failureMessages", Null))[1], -1)[1]

\* print('\n' + suite['name'])
FD_SuiteLine(suite) == <<NL>> \o suite["name"]
\* print('-', a['fullName'])
FD_NameLine(a) == <<"-", " ">> \o a["fullName"]
\* print('  ', msg)
FD_MsgLine(a) == <<"  ", " ">> \o FD_Msg(a)

\* "for a in fails": the lines printed, and the exception that ends it.
RECURSIVE FD_Details(_)
FD_Details(fails) ==
  IF fails = <<>> THEN [lines |-> <<>>, err |-> "none"]
  ELSE LET a == Head(fails)
           rest == FD_Details(Tail(fails))
       IN IF "fullName" \notin DOMAIN a
          THEN [lines |-> <<>>, err |-> "KeyError"]
          ELSE [lines |-> <<FD_NameLine(a), FD_MsgLine(a)>> \o rest.lines,
                err |-> rest.err]

\* One turn of "for suite in j['testResults']".
FD_ForSuite ==
  /\ script = "failed_details" /\ pc = "fd_for"
  /\ IF "testResults" \notin DOMAIN data
     THEN Raise("KeyError") /\ UNCHANGED <<i, out>>
     ELSE IF i > Len(data["testResults"])
     THEN pc' = "done" /\ UNCHANGED <<i, out, err>>
     ELSE LET suite == data["testResults"][i]
              fails == FailsOf(suite)
              d == FD_Details(fails)
          IN IF fails = <<>>
             THEN i' = i + 1 /\ UNCHANGED <<pc, out, err>>
             ELSE IF "name" \notin DOMAIN suite
             THEN Raise("KeyError") /\ UNCHANGED <<i, out>>
             ELSE /\ out' = Append(out, FD_SuiteLine(suite)) \o d.lines
                  /\ IF d.err = "none"
                     THEN i' = i + 1 /\ UNCHANGED <<pc, err>>
                     ELSE Raise(d.err) /\ i' = i
  /\ UNCHANGED <<script, fileExists, fileBytes, report, data, failures>>

\* ------------------------------------------------------ temp_decode.py
\* print(data['numFailedTests'])
TD_Print ==
  /\ script = "temp_decode" /\ pc = "td_print"
  /\ IF "numFailedTests" \in DOMAIN data
     THEN out' = Append(out, Str(data["numFailedTests"])) /\ pc' = "done" /\ err' = err
     ELSE Raise("KeyError") /\ out' = out
  /\ UNCHANGED <<script, fileExists, fileBytes, report, data, i, failures>>

\* -------------------------------------------- vitest-report-summary.py
\* 'TOTAL SUITES {} PASS {} FAIL {} SKIPPED {}'.format(...)
VS_SuiteTotalsLine(d) ==
  <<"TOTAL SUITES ">> \o Str(d["numTotalTestSuites"])
  \o <<" PASS ">> \o Str(d["numPassedTestSuites"])
  \o <<" FAIL ">> \o Str(d["numFailedTestSuites"])
  \o <<" SKIPPED ">> \o Str(d["numPendingTestSuites"])

\* 'TOTAL TESTS {} PASS {} FAIL {} SKIPPED {}'.format(...)
VS_TestTotalsLine(d) ==
  <<"TOTAL TESTS ">> \o Str(d["numTotalTests"])
  \o <<" PASS ">> \o Str(d["numPassedTests"])
  \o <<" FAIL ">> \o Str(d["numFailedTests"])
  \o <<" SKIPPED ">> \o Str(d["numPendingTests"])

VS_PrintSuiteTotals ==
  /\ script = "vitest_report_summary" /\ pc = "vs_suite_totals"
  /\ IF {"numTotalTestSuites", "numPassedTestSuites", "numFailedTestSuites",
         "numPendingTestSuites"} \subseteq DOMAIN data
     THEN out' = Append(out, VS_SuiteTotalsLine(data)) /\ pc' = "vs_test_totals"
          /\ err' = err
     ELSE Raise("KeyError") /\ out' = out
  /\ UNCHANGED <<script, fileExists, fileBytes, report, data, i, failures>>

VS_PrintTestTotals ==
  /\ script = "vitest_report_summary" /\ pc = "vs_test_totals"
  /\ IF {"numTotalTests", "numPassedTests", "numFailedTests", "numPendingTests"}
          \subseteq DOMAIN data
     THEN out' = Append(out, VS_TestTotalsLine(data)) /\ pc' = "vs_collect"
          /\ err' = err
     ELSE Raise("KeyError") /\ out' = out
  /\ UNCHANGED <<script, fileExists, fileBytes, report, data, i, failures>>

\* The dict appended to failures for a failed assertion.
VS_Failure(suite_name, assertion) ==
  [suite |-> suite_name, fullName |-> assertion["fullName"],
   message |-> Join(Get(assertion, "failureMessages", List(<<>>)).list)]

\* A variant that inserts each failure at the front of the suite's entries.
RECURSIVE VS_Scan_Reversed(_, _)
VS_Scan_Reversed(suite_name, asserts) ==
  IF asserts = <<>> THEN [items |-> <<>>, err |-> "none"]
  ELSE LET a == Head(asserts)
           rest == VS_Scan_Reversed(suite_name, Tail(asserts))
       IN IF "status" \notin DOMAIN a THEN [items |-> <<>>, err |-> "KeyError"]
          ELSE IF a["status"] # "failed" THEN rest
          ELSE IF IsNull(Get(a, "failureMessages", List(<<>>)))
          THEN [items |-> <<>>, err |-> "TypeError"]
          ELSE IF "fullName" \notin DOMAIN a THEN [items |-> <<>>, err |-> "KeyError"]
          ELSE [items |-> rest.items \o <<VS_Failure(suite_name, a)>>, err |-> rest.err]

\* "for assertion in suite['assertionResults']": the entries appended to
\* failures, and the exception that ends it.
RECURSIVE VS_Scan(_, _)
VS_Scan(suite_name, asserts) ==
  IF asserts = <<>> THEN [items |-> <<>>, err |-> "none"]
  ELSE LET a == Head(asserts)
           rest == VS_Scan(suite_name, Tail(asserts))
       IN IF "status" \notin DOMAIN a THEN [items |-> <<>>, err |-> "KeyError"]
          ELSE IF a["status"] # "failed" THEN rest
          ELSE IF IsNull(Get(a, "failureMessages", List(<<>>)))
          THEN [items |-> <<>>, err |-> "TypeError"]
          ELSE IF "fullName" \notin DOMAIN a THEN [items |-> <<>>, err |-> "KeyError"]
          ELSE [items |-> <<VS_Failure(suite_name, a)>> \o rest.items, err |-> rest.err]

\* One turn of "for suite in data.get('testResults', [])", the first loop.
VS_Collect ==
  /\ script = "vitest_report_summary" /\ pc = "vs_collect"
  /\ LET suites == Get(data, "testResults", <<>>)
     IN IF i > Len(suites)
        THEN pc' = "vs_count" /\ i' = 1 /\ UNCHANGED <<failures, err>>
        ELSE LET suite == suites[i]
                 r == VS_Scan(suite["name"], suite["assertionResults"])
             IN IF {"name", "assertionResults"} \subseteq DOMAIN suite
                THEN /\ failures' = failures \o r.items
                     /\ IF r.err = "none"
                        THEN i' = i + 1 /\ UNCHANGED <<pc, err>>
                        ELSE Raise(r.err) /\ i' = i
                ELSE Raise("KeyError") /\ UNCHANGED <<i, failures>>
  /\ UNCHANGED <<script, fileExists, fileBytes, report, data, out>>

\* A variant that prints the report's own counter.
VS_CountLine_FromCounter(fs) == <<"FAILURE COUNT", " ">> \o Str(data["numFailedTests"])

\* print('FAILURE COUNT', len(failures)); print('E2E FILE STATUS:')
VS_CountLine(fs) == <<"FAILURE COUNT", " ">> \o Str(Len(fs))

VS_PrintCount ==
  /\ script = "vitest_report_summary" /\ pc = "vs_count"
  /\ out' = out \o <<VS_CountLine(failures), <<"E2E FILE STATUS:">>>>
  /\ pc' = "vs_e2e"
  /\ UNCHANGED <<script, fileExists, fileBytes, report, data, i, failures, err>>

\* A variant that asks for the name to end with the file name.
VS_Matches_EndsWith(suite) == suite["name"][Len(suite["name"])] = E2E

\* 'e2e-quality-orchestration.test.ts' in suite['name']
VS_Matches(suite) == Contains(suite["name"], <<E2E>>)

\* print('  ', suite['name'], suite['status'])
VS_E2ELine(suite) == <<"  ", " ">> \o suite["name"] \o <<" ", suite["status"]>>

\* One turn of the second loop over the suites, which breaks at a match.
VS_E2E ==
  /\ script = "vitest_report_summary" /\ pc = "vs_e2e"
  /\ LET suites == Get(data, "testResults", <<>>)
     IN IF i > Len(suites)
        THEN pc' = "vs_failures_header" /\ UNCHANGED <<i, out, err>>
        ELSE LET suite == suites[i]
             IN IF "name" \notin DOMAIN suite
                THEN Raise("KeyError") /\ UNCHANGED <<i, out>>
                ELSE IF ~VS_Matches(suite)
                THEN i' = i + 1 /\ UNCHANGED <<pc, out, err>>
                ELSE IF "status" \notin DOMAIN suite
                THEN Raise("KeyError") /\ UNCHANGED <<i, out>>
                ELSE /\ out' = Append(out, VS_E2ELine(suite))
                     /\ pc' = "vs_failures_header"
                     /\ UNCHANGED <<i, err>>
  /\ UNCHANGED <<script, fileExists, fileBytes, report, data, failures>>

\* print('\nFAILURES:')
VS_PrintFailuresHeader ==
  /\ script = "vitest_report_summary" /\ pc = "vs_failures_header"
  /\ out' = Append(out, <<NL, "FAILURES:">>)
  /\ pc' = "vs_failures"
  /\ i' = 1
  /\ UNCHANGED <<script, fileExists, fileBytes, report, data, failures, err>>

\* A variant that prints the whole message.
VS_FirstLine_Whole(failure) ==
  IF failure.message # EmptyStr THEN failure.message ELSE <<"No message">>

\* failure['message'].split('\n', 1)[0] if failure['message'] else 'No message'
VS_FirstLine(failure) ==
  IF failure.message # EmptyStr THEN Split(failure.message, 1)[1] ELSE <<"No message">>

\* f"- {failure['fullName']}: {first_line}"
VS_FailureLine(failure) ==
  <<"- ">> \o failure.fullName \o <<": ">> \o VS_FirstLine(failure)

\* One turn of "for failure in failures".
VS_PrintFailure ==
  /\ script = "vitest_report_summary" /\ pc = "vs_failures"
  /\ IF i > Len(failures)
     THEN pc' = "done" /\ UNCHANGED <<i, out>>
     ELSE out' = Append(out, VS_FailureLine(failures[i])) /\ i' = i + 1 /\ pc' = pc
  /\ UNCHANGED <<script, fileExists, fileBytes, report, data, failures, err>>

Next ==
  \/ Load
  \/ CF_PrintTotals
  \/ CF_ForSuite
  \/ FD_ForSuite
  \/ TD_Print
  \/ VS_PrintSuiteTotals
  \/ VS_PrintTestTotals
  \/ VS_Collect
  \/ VS_PrintCount
  \/ VS_E2E
  \/ VS_PrintFailuresHeader
  \/ VS_PrintFailure

Spec == Init /\ [][Next]_vars

\* ============================================================ properties
\* What the report holds, read off the document itself.
SuitesOf(r) == IF "testResults" \in DOMAIN r THEN r["testResults"] ELSE <<>>
AssertsOf(s) == IF "assertionResults" \in DOMAIN s THEN s["assertionResults"] ELSE <<>>
HasFailedStatus(x) == "status" \in DOMAIN x /\ x["status"] = "failed"
FailedIdx(s) == {m \in 1..Len(AssertsOf(s)) : HasFailedStatus(AssertsOf(s)[m])}
FailedPairs(r) ==
  UNION {{<<k, m>> : m \in FailedIdx(SuitesOf(r)[k])} : k \in 1..Len(SuitesOf(r))}
NameOr(x, key) == IF key \in DOMAIN x THEN x[key] ELSE <<"<absent>">>

RECURSIVE Flat(_)
Flat(ss) == IF ss = <<>> THEN <<>> ELSE Head(ss) \o Flat(Tail(ss))

\* The failed assertions in document order, each with its suite.
FailedOfSuite(s) ==
  LET all == [m \in 1..Len(AssertsOf(s)) |-> [suite |-> s, assertion |-> AssertsOf(s)[m]]]
      failed(e) == HasFailedStatus(e.assertion)
  IN SelectSeq(all, failed)
FailedInOrder(r) == Flat([k \in 1..Len(SuitesOf(r)) |-> FailedOfSuite(SuitesOf(r)[k])])

IsPrefix(p, q) == Len(p) <= Len(q) /\ SubSeq(q, 1, Len(p)) = p

\* The first line of a text: what precedes its first line feed.
LineOne(t) ==
  CHOOSE p \in {SubSeq(t, 1, n) : n \in 0..Len(t)} :
    /\ \A k \in 1..Len(p) : p[k] # "\n"
    /\ (Len(p) = Len(t) \/ t[Len(p) + 1] = "\n")

\* The failure messages of an assertion: none when the field is absent, null
\* or an empty array.
MsgsOf(a) ==
  IF "failureMessages" \in DOMAIN a /\ "list" \in DOMAIN a["failureMessages"]
  THEN a["failureMessages"].list ELSE <<>>
HasNullMsgs(a) ==
  "failureMessages" \in DOMAIN a /\ "null" \in DOMAIN a["failureMessages"]

AllFields(r) ==
  /\ CounterKeys \cup {"testResults"} \subseteq DOMAIN r
  /\ \A k \in 1..Len(SuitesOf(r)) :
       /\ {"name", "status", "assertionResults"} \subseteq DOMAIN SuitesOf(r)[k]
       /\ \A m \in 1..Len(AssertsOf(SuitesOf(r)[k])) :
            {"fullName", "status"} \subseteq DOMAIN AssertsOf(SuitesOf(r)[k])[m]

\* A well-formed report: every field of the data model is there, and the
\* failure messages of an assertion, when given, are an array.
WellFormed(r) ==
  /\ AllFields(r)
  /\ \A k \in 1..Len(SuitesOf(r)) : \A m \in 1..Len(AssertsOf(SuitesOf(r)[k])) :
       ~HasNullMsgs(AssertsOf(SuitesOf(r)[k])[m])

Loaded == data = report
Summary == script = "vitest_report_summary"

\* ------------------------------------------------------------------ C1
\* The file's bytes are a text of the encoding the script assumes.
ValidBytes(s, bs) == Decode(Encoding(s), "strict", bs).err = "none"

\* C1: whenever the bytes of the input file are not valid in the encoding the
\* script assumes, the load ends in a decode error and nothing is printed.
C1_WrongEncodingRaises ==
  (fileExists /\ pc # "load" /\ ~ValidBytes(script, fileBytes))
    => (err \in {"UnicodeDecodeError", "JSONDecodeError"} /\ out = <<>>)

\* ------------------------------------------------------------------ C2
\* The fields each script looks up by name.
Expects(s) ==
  CASE s = "check_full" ->
         [top |-> {"numTotalTests", "numPassedTests", "numFailedTests",
                   "numFailedTestSuites", "testResults"},
          suite |-> {"name", "status", "assertionResults"},
          assertion |-> {"status"}]
    [] s = "failed_details" ->
         [top |-> {"testResults"}, suite |-> {"name", "assertionResults"},
          assertion |-> {"status", "fullName"}]
    [] s = "temp_decode" ->
         [top |-> {"numFailedTests"}, suite |-> {}, assertion |-> {}]
    [] s = "vitest_report_summary" ->
         [top |-> CounterKeys \cup {"testResults"},
          suite |-> {"name", "status", "assertionResults"},
          assertion |-> {"status", "fullName"}]

MissingExpected(s, r) ==
  \/ ~(Expects(s).top \subseteq DOMAIN r)
  \/ \E k \in 1..Len(SuitesOf(r)) :
       \/ ~(Expects(s).suite \subseteq DOMAIN SuitesOf(r)[k])
       \/ \E m \in 1..Len(AssertsOf(SuitesOf(r)[k])) :
            ~(Expects(s).assertion \subseteq DOMAIN AssertsOf(SuitesOf(r)[k])[m])

\* C2: a run on a report in which a field the script expects is absent never
\* completes successfully: it aborts with an error.
C2_MissingFieldAborts ==
  (Loaded /\ MissingExpected(script, report)) => pc # "done"

\* ------------------------------------------------------------------ C3
\* C3: the number vitest-report-summary prints after FAILURE COUNT is the
\* number of assertions with status failed over all suites of the report,
\* and on a well-formed report the run raises nothing, so it gets printed.
C3_RecomputedCount ==
  Summary =>
    /\ Len(out) >= 3 =>
         out[3] = <<"FAILURE COUNT", " ">> \o Str(Cardinality(FailedPairs(report)))
    /\ (Loaded /\ WellFormed(report)) => err = "none"
    /\ pc = "done" => Len(out) >= 3

\* C3 witness: a finished run over two suites that hold three failed
\* assertions, while the report's own counter says two.
C3_Witness ==
  /\ Summary /\ pc = "done" /\ err = "none" /\ AllFields(report)
  /\ Len(SuitesOf(report)) = 2
  /\ Cardinality(FailedPairs(report)) = 3
  /\ report["numFailedTests"] = 2
  /\ out[3] = <<"FAILURE COUNT", " ", "3">>

\* ------------------------------------------------------------------ C4
IsSuiteHeader(line) == line # <<>> /\ line[1] = "\n"
HeadersPrinted == SelectSeq(out, IsSuiteHeader)
HasFailedAssertion(s) == FailedIdx(s) # {}
HeadersExpected(r) ==
  LET header(s) == <<"\n">> \o NameOr(s, "name")
  IN [k \in 1..Len(SelectSeq(SuitesOf(r), HasFailedAssertion)) |->
        header(SelectSeq(SuitesOf(r), HasFailedAssertion)[k])]

\* C4: failed_details prints the name of a suite if and only if the suite
\* has an assertion with status failed, whatever the suite's own status: no
\* other suite is ever printed, and a finished run has printed them all, in
\* document order.
C4_SuitesWithFailures ==
  script = "failed_details" =>
    /\ IsPrefix(HeadersPrinted, HeadersExpected(report))
    /\ pc = "done" => HeadersPrinted = HeadersExpected(report)

\* C4 witness: a finished run on a report whose first suite is failed with no
\* failed assertion and whose second is passed with a failed assertion; only
\* the second is printed.
C4_Witness ==
  /\ script = "failed_details" /\ pc = "done" /\ AllFields(report)
  /\ Len(SuitesOf(report)) = 2
  /\ report["testResults"][1]["status"] = "failed"
  /\ ~HasFailedAssertion(report["testResults"][1])
  /\ report["testResults"][2]["status"] = "passed"
  /\ HasFailedAssertion(report["testResults"][2])
  /\ HeadersPrinted = << <<"\n">> \o report["testResults"][2]["name"] >>

\* ------------------------------------------------------------------ C5
HasE2E(s) == "name" \in DOMAIN s /\ \E k \in 1..Len(s["name"]) : s["name"][k] = E2E
MatchingIdx(r) == {k \in 1..Len(SuitesOf(r)) : HasE2E(SuitesOf(r)[k])}
FirstMatch(r) == SuitesOf(r)[CHOOSE k \in MatchingIdx(r) : \A n \in MatchingIdx(r) : k <= n]
FailuresHeader == <<"\n", "FAILURES:">>
\* What was printed after 'E2E FILE STATUS:' and before '\nFAILURES:'.
LookupLines ==
  LET stop == IF \E h \in 1..Len(out) : out[h] = FailuresHeader
              THEN CHOOSE h \in 1..Len(out) : out[h] = FailuresHeader
              ELSE Len(out) + 1
  IN SubSeq(out, 5, stop - 1)

\* C5: once the lookup loop of vitest-report-summary is over, it has printed
\* the name and status of the first suite whose name contains
\* 'e2e-quality-orchestration.test.ts' and of no other suite, and nothing when
\* no suite name contains it.
C5_FirstMatchOnly ==
  (Summary /\ pc \in {"vs_failures_header", "vs_failures", "done"}) =>
    /\ out[4] = <<"E2E FILE STATUS:">>
    /\ IF MatchingIdx(report) = {}
       THEN LookupLines = <<>>
       ELSE LookupLines =
              << <<"  ", " ">> \o FirstMatch(report)["name"]
                 \o <<" ", FirstMatch(report)["status"]>> >>

\* C5 witness: a finished run on two suites that both match, with different
\* names and statuses; the line is the first one's.
C5_Witness ==
  /\ Summary /\ pc = "done" /\ AllFields(report)
  /\ MatchingIdx(report) = {1, 2}
  /\ report["testResults"][1]["name"] = <<"a/b/", E2E>>
  /\ report["testResults"][1]["status"] = "passed"
  /\ report["testResults"][2]["name"] # <<"a/b/", E2E>>
  /\ report["testResults"][2]["status"] = "failed"
  /\ LookupLines = << <<"  ", " ", "a/b/", E2E, " ", "passed">> >>

\* ------------------------------------------------------------------ C6
\* The first line of the first recorded failure message, the empty string
\* when there is none.
FirstMsgLine(a) == IF MsgsOf(a) = <<>> THEN <<>> ELSE LineOne(MsgsOf(a)[1])

\* The lines after '\nFAILURES:'.
FailureLines ==
  IF \E h \in 1..Len(out) : out[h] = FailuresHeader
  THEN SubSeq(out, (CHOOSE h \in 1..Len(out) : out[h] = FailuresHeader) + 1, Len(out))
  ELSE <<>>

\* The lines failed_details prints below the suite headers.
IsDetail(line) == ~IsSuiteHeader(line)
DetailLines == SelectSeq(out, IsDetail)

FD_DetailsAsClaimed ==
  (script = "failed_details" /\ pc = "done") =>
    /\ Len(DetailLines) = 2 * Len(FailedInOrder(report))
    /\ \A k \in 1..Len(FailedInOrder(report)) :
         /\ DetailLines[2 * k - 1] = <<"-", " ">> \o FailedInOrder(report)[k].assertion["fullName"]
         /\ DetailLines[2 * k] = <<"  ", " ">> \o FirstMsgLine(FailedInOrder(report)[k].assertion)

\* C6 as stated: in each listing, every failed assertion is printed with its
\* full name and the first line of its first failure message, the empty
\* string when it has none.
C6_FirstLineOrEmpty ==
  /\ FD_DetailsAsClaimed
  /\ (Summary /\ pc = "done") =>
       /\ Len(FailureLines) = Len(FailedInOrder(report))
       /\ \A k \in 1..Len(FailedInOrder(report)) :
            FailureLines[k] = <<"- ">> \o FailedInOrder(report)[k].assertion["fullName"]
                              \o <<": ">> \o FirstMsgLine(FailedInOrder(report)[k].assertion)

\* The failure messages joined by line feeds are the empty text.
JoinsToEmpty(a) == MsgsOf(a) = <<>> \/ MsgsOf(a) = << <<>> >>

\* C6 amended: failed_details prints the full name and the first line of the
\* first failure message, the empty string when there is none;
\* vitest-report-summary prints that first line when the joined messages are
\* a non-empty text and 'No message' when they are empty, and with a null
\* failureMessages on a failed assertion it raises TypeError (or KeyError for
\* a field absent before it) and prints no FAILURES section.
C6_FirstLineOrNoMessage ==
  /\ FD_DetailsAsClaimed
  /\ (Summary /\ pc = "done") =>
       /\ Len(FailureLines) = Len(FailedInOrder(report))
       /\ \A k \in 1..Len(FailedInOrder(report)) :
            LET a == FailedInOrder(report)[k].assertion
            IN FailureLines[k] =
                 <<"- ">> \o a["fullName"] \o <<": ">>
                 \o (IF JoinsToEmpty(a) THEN <<"No message">> ELSE FirstMsgLine(a))
  /\ (Summary /\ Loaded /\ pc \notin {"vs_suite_totals", "vs_test_totals", "vs_collect"}
        /\ \E k \in 1..Len(FailedInOrder(report)) :
             HasNullMsgs(FailedInOrder(report)[k].assertion)) =>
       (pc = "error" /\ err \in {"TypeError", "KeyError"} /\ FailureLines = <<>>)

\* C6 witness: a finished run of vitest-report-summary on a failed assertion
\* whose failureMessages is an empty array, printed with 'No message', before
\* one whose message is printed as it is.
C6_Witness ==
  /\ Summary /\ pc = "done"
  /\ Len(FailedInOrder(report)) = 2
  /\ "failureMessages" \in DOMAIN FailedInOrder(report)[1].assertion
  /\ MsgsOf(FailedInOrder(report)[1].assertion) = <<>>
  /\ FailureLines =
       << <<"- ">> \o PosFull(1, 1) \o <<": ", "No message">>,
          <<"- ">> \o PosFull(1, 2) \o <<": ">> \o Msg1 >>

\* ------------------------------------------------------------------ C7
HasFailedSuiteStatus(s) == HasFailedStatus(s)
SuiteLinesExpected(r) ==
  LET fs == SelectSeq(SuitesOf(r), HasFailedSuiteStatus)
  IN [k \in 1..Len(fs) |->
        NameOr(fs[k], "name") \o <<" :: ">> \o Str(Cardinality(FailedIdx(fs[k])))]

\* C7: after its totals line check_full prints one 'name :: n' line for each
\* suite whose status is failed and for no other, in document order, n being
\* the number of assertions of the suite whose status is failed.
C7_FailedSuitesListed ==
  (script = "check_full" /\ out # <<>>) =>
    /\ IsPrefix(Tail(out), SuiteLinesExpected(report))
    /\ pc = "done" => Tail(out) = SuiteLinesExpected(report)

\* C7 witness: a finished run that printed a failed suite without failed
\* assertions with count 0 and skipped a passed suite that holds one.
C7_Witness ==
  /\ script = "check_full" /\ pc = "done" /\ AllFields(report)
  /\ Len(SuitesOf(report)) = 2
  /\ report["testResults"][1]["status"] = "passed"
  /\ HasFailedAssertion(report["testResults"][1])
  /\ report["testResults"][2]["status"] = "failed"
  /\ ~HasFailedAssertion(report["testResults"][2])
  /\ Len(AssertsOf(report["testResults"][2])) > 0
  /\ Tail(out) = << report["testResults"][2]["name"] \o <<" :: ", "0">> >>

\* ------------------------------------------------------------------ C8
HasRun(line, run) ==
  \E k \in 1..Len(line) : k + Len(run) - 1 <= Len(line) /\ SubSeq(line, k, k + Len(run) - 1) = run

\* C8: the first line check_full prints is the totals line; it holds
\* 'total=T' and 'failed=F' for the report's own numTotalTests = T and
\* numFailedTests = F, and every line after it is a suite line.
C8_TotalsLine ==
  (script = "check_full" /\ out # <<>>) =>
    /\ HasRun(out[1], <<"total=">> \o Str(report["numTotalTests"]) \o <<" ">>)
    /\ HasRun(out[1], <<"failed=">> \o Str(report["numFailedTests"]) \o <<" ">>)
    /\ \A k \in 2..Len(out) : HasRun(out[k], <<" :: ">>) /\ ~HasRun(out[k], <<"total=">>)

\* C8 witness: a finished run on a report whose counters, of two digits, are
\* not what its suites hold.
C8_Witness ==
  /\ script = "check_full" /\ pc = "done" /\ AllFields(report)
  /\ report["numTotalTests"] = 10 /\ report["numFailedTests"] = 11
  /\ Cardinality(FailedPairs(report)) = 1
  /\ Len(out) = 2
  /\ SubSeq(out[1], 1, 3) = <<"total=", "1", "0">>

\* ----------------------------------------------------------------- C10
\* C10: in vitest-report-summary the lines after 'FAILURES:' are one per
\* failed assertion, in document order, each starting '- fullName: '; a
\* finished run has printed as many of them as the number after FAILURE COUNT.
C10_FailuresMatchCount ==
  (Summary /\ pc \in {"vs_failures", "done"}) =>
    /\ Len(FailureLines) <= Len(FailedInOrder(report))
    /\ \A k \in 1..Len(FailureLines) :
         IsPrefix(<<"- ">> \o FailedInOrder(report)[k].assertion["fullName"] \o <<": ">>,
                  FailureLines[k])
    /\ pc = "done" =>
         /\ out[3] = <<"FAILURE COUNT", " ">> \o Str(Len(FailureLines))
         /\ Len(FailureLines) = Len(FailedInOrder(report))

\* C10 witness: a finished run that listed three failed assertions of two
\* suites, the second suite's after the first's.
C10_Witness ==
  /\ Summary /\ pc = "done"
  /\ Len(FailureLines) = 3
  /\ out[3] = <<"FAILURE COUNT", " ", "3">>
  /\ FailedPairs(report) = {<<1, 1>>, <<2, 1>>, <<2, 2>>}
  /\ IsPrefix(<<"- ">> \o PosFull(1, 1), FailureLines[1])
  /\ IsPrefix(<<"- ">> \o PosFull(2, 1), FailureLines[2])
  /\ IsPrefix(<<"- ">> \o PosFull(2, 2), FailureLines[3])
====
